---------------------------- MODULE Spec2Model ----------------------------
(***************************************************************************)
(* Resume scanner: the score / keyword / suggestion derivations of         *)
(* src/services/resumeService.ts, the analyzeResume request chain, and the *)
(* ResumeScanner component that drives it through useQuery.                *)
(*                                                                         *)
(* Two state machines share the module.                                    *)
(*   SpecEngine  the four derivations of the object literal returned by    *)
(*               analyzeResume, applied to one analysis response.          *)
(*   SpecApp     the component: file selection, the query, the two HTTP    *)
(*               requests of analyzeResume, and what the view renders.     *)
(***************************************************************************)
EXTENDS Integers, Sequences, FiniteSets, TLC

VARIABLES
    \* ---- engine: analyzeResume's `analysisResponse.data` and the fields
    \* ---- of the object literal built from it
    analysisData,   \* the APIResponse the derivations read
    score,          \* result.score       (NoScore until evaluated)
    keywords,       \* result.keywords
    suggestions,    \* result.suggestions
    format,         \* result.format
    evaluated,      \* which fields of the literal have been evaluated
    \* ---- component and service
    mounted,        \* the component has rendered and its query observer subscribed
    file,           \* useState<File | null>: NoFile or the selected file
    retry,          \* the QueryClient's `retry` option: failed fetches retried
    query,          \* state of the query the observer is on
    call,           \* the analyzeResume call of the running fetch, if any
    trace,          \* requests, responses and outcome of the latest call, in order
    selectedEver    \* history: the files setFile has been called with

engineVars == <<analysisData, score, keywords, suggestions, format, evaluated>>
appVars == <<mounted, file, retry, query, call, trace, selectedEver>>
vars == <<engineVars, appVars>>

(***************************************************************************)
(* Values                                                                  *)
(***************************************************************************)

\* An optional array field of APIResponse (`formatIssues?: string[]`): either
\* undefined or an array.  `defined` tells the two apart, so that undefined
\* and [] are different values.
Undefined == [defined |-> FALSE, items |-> <<>>]
Arr(s) == [defined |-> TRUE, items |-> s]

\* x?.length : undefined when x is undefined, the length otherwise.  Both
\* undefined and 0 are falsy, which is all the callers look at.
OptLengthTruthy(x) == x.defined /\ Len(x.items) > 0

\* x || [] : an array (even an empty one) is truthy
OrEmpty(x) == IF x.defined THEN x.items ELSE <<>>

Range(s) == {s[i] : i \in 1..Len(s)}

Min(a, b) == IF a < b THEN a ELSE b
Max(a, b) == IF a > b THEN a ELSE b

TextContact == "Add complete contact information including phone, email, and location"
TextWork == "Include detailed work experience with measurable achievements"
TextEducation == "Add your educational background"
TextSkills == "List relevant technical and soft skills"

Suggestion(t, sev) == [text |-> t, severity |-> sev]

\* the fields of the result before their initialisers have run
NoScore == -1
NoFormat == [isValid |-> FALSE, issues |-> <<"unset">>]
Fields == {"score", "keywords", "suggestions", "format"}

\* an APIResponse
Input(c, w, e, s, fi, sk, it, av, st) ==
    [hasContactInfo |-> c, hasWorkExperience |-> w, hasEducation |-> e, hasSkills |-> s,
     formatIssues |-> fi, skills |-> sk, industryTerms |-> it, actionVerbs |-> av,
     strengths |-> st]

\* the end-to-end example of the specification's section 8
ExampleInput ==
    Input(TRUE, FALSE, TRUE, TRUE, Arr(<<"Font too small">>), Arr(<<"Python">>),
          Undefined, Undefined, Arr(<<"Strong leadership">>))

(***************************************************************************)
(* calculateATSScore                                                       *)
(***************************************************************************)
ScoreStart == 100
PenaltyContact == 10
PenaltyWork == 15
PenaltyEducation == 10
PenaltySkills == 10
PenaltyPerIssue == 5
ScoreFloor == 0
ScoreCeiling == 100

\* faulty variant: the work-experience deduction taken as 10, like its neighbours
calculateATSScore_FlatPenalty(d) ==
    LET s1 == IF ~d.hasContactInfo THEN ScoreStart - PenaltyContact ELSE ScoreStart
        s2 == IF ~d.hasWorkExperience THEN s1 - PenaltyContact ELSE s1
        s3 == IF ~d.hasEducation THEN s2 - PenaltyEducation ELSE s2
        s4 == IF ~d.hasSkills THEN s3 - PenaltySkills ELSE s3
        s5 == IF OptLengthTruthy(d.formatIssues)
              THEN s4 - Len(d.formatIssues.items) * PenaltyPerIssue ELSE s4
    IN  Max(ScoreFloor, Min(ScoreCeiling, s5))

\* faulty variant: the lower clamp forgotten (Math.min only)
calculateATSScore_NoFloor(d) ==
    LET s1 == IF ~d.hasContactInfo THEN ScoreStart - PenaltyContact ELSE ScoreStart
        s2 == IF ~d.hasWorkExperience THEN s1 - PenaltyWork ELSE s1
        s3 == IF ~d.hasEducation THEN s2 - PenaltyEducation ELSE s2
        s4 == IF ~d.hasSkills THEN s3 - PenaltySkills ELSE s3
        s5 == IF OptLengthTruthy(d.formatIssues)
              THEN s4 - Len(d.formatIssues.items) * PenaltyPerIssue ELSE s4
    IN  Min(ScoreCeiling, s5)

calculateATSScore(d) ==
    LET s1 == IF ~d.hasContactInfo THEN ScoreStart - PenaltyContact ELSE ScoreStart
        s2 == IF ~d.hasWorkExperience THEN s1 - PenaltyWork ELSE s1
        s3 == IF ~d.hasEducation THEN s2 - PenaltyEducation ELSE s2
        s4 == IF ~d.hasSkills THEN s3 - PenaltySkills ELSE s3
        s5 == IF OptLengthTruthy(d.formatIssues)
              THEN s4 - Len(d.formatIssues.items) * PenaltyPerIssue ELSE s4
    IN  Max(ScoreFloor, Min(ScoreCeiling, s5))

(***************************************************************************)
(* extractKeywords: a JavaScript Set keeps insertion order and ignores the *)
(* add of a value it already holds (SameValueZero, exact for strings).     *)
(***************************************************************************)
SetAdd(set, v) == IF v \in Range(set) THEN set ELSE Append(set, v)

RECURSIVE ForEachAdd(_, _)
\* x?.forEach(v => keywords.add(v)), over the items left
ForEachAdd(set, items) ==
    IF items = <<>> THEN set
    ELSE ForEachAdd(SetAdd(set, Head(items)), Tail(items))

OptForEachAdd(set, x) == IF x.defined THEN ForEachAdd(set, x.items) ELSE set

\* faulty variant: an array with push in place of the Set
extractKeywords_Array(d) ==
    OrEmpty(d.skills) \o OrEmpty(d.industryTerms) \o OrEmpty(d.actionVerbs)

extractKeywords(d) ==
    LET k1 == OptForEachAdd(<<>>, d.skills)
        k2 == OptForEachAdd(k1, d.industryTerms)
        k3 == OptForEachAdd(k2, d.actionVerbs)
    IN  k3

(***************************************************************************)
(* generateSuggestions                                                     *)
(***************************************************************************)
RECURSIVE PushEach(_, _, _)
\* items.forEach(t => suggestions.push({text: t, severity: sev}))
PushEach(sugg, items, sev) ==
    IF items = <<>> THEN sugg
    ELSE PushEach(Append(sugg, Suggestion(Head(items), sev)), Tail(items), sev)

OptPushEach(sugg, x, sev) == IF x.defined THEN PushEach(sugg, x.items, sev) ELSE sugg

\* faulty variant: the four checks chained with else-if, so only the first fires
generateSuggestions_ElseIf(d) ==
    LET g == IF ~d.hasContactInfo THEN <<Suggestion(TextContact, "error")>>
             ELSE IF ~d.hasWorkExperience THEN <<Suggestion(TextWork, "error")>>
             ELSE IF ~d.hasEducation THEN <<Suggestion(TextEducation, "error")>>
             ELSE IF ~d.hasSkills THEN <<Suggestion(TextSkills, "error")>>
             ELSE <<>>
        g5 == OptPushEach(g, d.formatIssues, "warning")
        g6 == OptPushEach(g5, d.strengths, "success")
    IN  g6

\* faulty variant: format issues pushed with severity error
generateSuggestions_IssuesAsErrors(d) ==
    LET g1 == IF ~d.hasContactInfo THEN <<Suggestion(TextContact, "error")>> ELSE <<>>
        g2 == IF ~d.hasWorkExperience THEN Append(g1, Suggestion(TextWork, "error")) ELSE g1
        g3 == IF ~d.hasEducation THEN Append(g2, Suggestion(TextEducation, "error")) ELSE g2
        g4 == IF ~d.hasSkills THEN Append(g3, Suggestion(TextSkills, "error")) ELSE g3
        g5 == OptPushEach(g4, d.formatIssues, "error")
        g6 == OptPushEach(g5, d.strengths, "success")
    IN  g6

generateSuggestions(d) ==
    LET g1 == IF ~d.hasContactInfo THEN <<Suggestion(TextContact, "error")>> ELSE <<>>
        g2 == IF ~d.hasWorkExperience THEN Append(g1, Suggestion(TextWork, "error")) ELSE g1
        g3 == IF ~d.hasEducation THEN Append(g2, Suggestion(TextEducation, "error")) ELSE g2
        g4 == IF ~d.hasSkills THEN Append(g3, Suggestion(TextSkills, "error")) ELSE g3
        g5 == OptPushEach(g4, d.formatIssues, "warning")
        g6 == OptPushEach(g5, d.strengths, "success")
    IN  g6

(***************************************************************************)
(* validateFormat                                                          *)
(***************************************************************************)
\* faulty variant: isValid tests for the field being absent instead of its length
validateFormat_AbsentOnly(d) ==
    [isValid |-> ~d.formatIssues.defined, issues |-> OrEmpty(d.formatIssues)]

validateFormat(d) ==
    [isValid |-> ~OptLengthTruthy(d.formatIssues), issues |-> OrEmpty(d.formatIssues)]

(***************************************************************************)
(* The component (ResumeScanner.tsx) and analyzeResume's request chain.    *)
(*                                                                         *)
(* Library behaviour the component relies on, as documented for            *)
(* @tanstack/react-query 5 and axios:                                      *)
(*  - a query key is hashed with JSON.stringify; a File has no own         *)
(*    enumerable property, so ['resumeAnalysis', file] hashes to           *)
(*    ["resumeAnalysis",{}] for every File and to ["resumeAnalysis",null]  *)
(*    for null: all files share one query, null has another;               *)
(*  - isLoading is (status = pending and fetchStatus = fetching);          *)
(*  - a failed fetch is retried `retry` times (3 unless the client says    *)
(*    otherwise) before the query takes the error; data is kept on error;  *)
(*  - a mounted, enabled query with the default staleTime of 0 is fetched  *)
(*    again when the window regains focus, unless it is fetching already;  *)
(*  - axios.post rejects on a network error or a non-2xx status.           *)
(***************************************************************************)
NoFile == "null"
Files == {"cv.pdf", "resume.docx"}

DefaultRetry == 3     \* QueryClient() without options
TestRetry == 0        \* the tests' client: retry: false

FileNotSelectedError == [name |-> "FileNotSelectedError", message |-> "No file selected"]
FailedError == [name |-> "Error", message |-> "Failed to analyze resume"]
\* what the try block can throw
NetworkError == [name |-> "AxiosError", message |-> "Network Error"]
TypeError == [name |-> "TypeError", message |-> "Cannot read properties of null"]

\* the text the extraction service returns for a file
TextOf(f) == <<"text of", f>>

PerfectInput ==
    Input(TRUE, TRUE, TRUE, TRUE, Arr(<<>>), Arr(<<"React", "React">>),
          Undefined, Arr(<<"Led">>), Undefined)
\* response bodies: <<d>> is a JSON body d, <<>> a null body
AnalyzeBodies == {<<ExampleInput>>, <<PerfectInput>>, <<>>}
ExtractBodies(f) == {<<[text |-> TextOf(f)]>>, <<>>}

\* the object literal analyzeResume returns, evaluated top to bottom
AnalysisResult(d) ==
    [score |-> calculateATSScore(d),
     keywords |-> extractKeywords(d),
     suggestions |-> generateSuggestions(d),
     format |-> validateFormat(d)]

FreshQuery ==
    [status |-> "pending", fetchStatus |-> "idle", data |-> <<>>, error |-> <<>>,
     failureCount |-> 0]
NoCall == [pc |-> "none", file |-> NoFile, text |-> <<>>, settled |-> "none",
           value |-> <<>>]

Event(e, f, m) == [ev |-> e, file |-> f, msg |-> m]

AppIdle ==
    /\ mounted = FALSE
    /\ file = NoFile
    /\ retry = DefaultRetry
    /\ query = FreshQuery
    /\ call = NoCall
    /\ trace = <<>>
    /\ selectedEver = {}

\* faulty variant: the `enabled` option left out of useQuery
QueryEnabled_Always(f) == TRUE

\* enabled: !!file
QueryEnabled(f) == f # NoFile

\* ---- query reducer --------------------------------------------------------
\* 'fetch': a query without data goes back to pending and drops its error
QueryFetch(q) ==
    IF q.data = <<>>
    THEN [q EXCEPT !.fetchStatus = "fetching", !.failureCount = 0,
                   !.status = "pending", !.error = <<>>]
    ELSE [q EXCEPT !.fetchStatus = "fetching", !.failureCount = 0]

\* 'success'
QuerySuccess(q, data) ==
    [q EXCEPT !.status = "success", !.fetchStatus = "idle", !.data = <<data>>,
              !.error = <<>>, !.failureCount = 0]

\* the retryer: retry while failureCount < retry ('failed'), else 'error'
QueryRejected(q, err) ==
    IF q.failureCount < retry
    THEN [q EXCEPT !.failureCount = @ + 1]
    ELSE [q EXCEPT !.status = "error", !.fetchStatus = "idle", !.error = <<err>>,
                   !.failureCount = @ + 1]

\* faulty variant: the catch block rethrows what it caught
analyzeResumeCatch_Rethrow(cause) == cause

\* catch (error) { console.error(...); throw new Error('Failed to analyze resume') }
analyzeResumeCatch(cause) == FailedError

\* ---- steps shared by the actions ------------------------------------------
\* the promise of the running call rejects with err
CallRejects(q, c, t, err) ==
    /\ query' = QueryRejected(q, err)
    /\ call' = [c EXCEPT !.pc = IF q.failureCount < retry THEN "retryWait" ELSE "none",
                         !.settled = "rejected", !.value = <<err>>]
    /\ trace' = Append(t, Event("rejected", c.file, err.message))

\* queryFn of a fetch that has just started on query q, with the file f of
\* the latest render: throw when there is no file, else analyzeResume(f) up
\* to its first await (the extract-text request is on its way)
RunQueryFn(q, f) ==
    IF f = NoFile
    THEN CallRejects(q, [NoCall EXCEPT !.file = f], <<>>, FileNotSelectedError)
    ELSE /\ query' = q
         /\ call' = [NoCall EXCEPT !.pc = "extracting", !.file = f]
         /\ trace' = <<Event("extractRequest", f, "")>>

\* ---- actions ---------------------------------------------------------------
AppInit ==
    /\ mounted = FALSE
    /\ file = NoFile
    /\ retry \in {TestRetry, DefaultRetry}
    /\ query = FreshQuery
    /\ call = NoCall
    /\ trace = <<>>
    /\ selectedEver = {}
    /\ analysisData = ExampleInput
    /\ score = NoScore
    /\ keywords = <<>>
    /\ suggestions = <<>>
    /\ format = NoFormat
    /\ evaluated = {}

\* first render: the observer subscribes and fetches if the query is enabled
Mount ==
    /\ ~mounted
    /\ mounted' = TRUE
    /\ IF QueryEnabled(file)
       THEN RunQueryFn(QueryFetch(query), file)
       ELSE UNCHANGED <<query, call, trace>>
    /\ UNCHANGED <<file, retry, selectedEver, engineVars>>

\* onChange of the file input, f being event.target.files[0] (NoFile: none),
\* and the render that follows
handleFileChange(f) ==
    /\ mounted
    /\ IF f = NoFile
       THEN UNCHANGED <<file, selectedEver, query, call, trace>>
       ELSE /\ file' = f
            /\ selectedEver' = selectedEver \cup {f}
            /\ IF file = NoFile
               \* the key's hash changes: the observer moves to the files' query
               THEN IF QueryEnabled(f)
                    THEN RunQueryFn(QueryFetch(FreshQuery), f)
                    ELSE query' = FreshQuery /\ UNCHANGED <<call, trace>>
               \* same hash, same query: nothing is fetched
               ELSE UNCHANGED <<query, call, trace>>
    /\ UNCHANGED <<mounted, retry, engineVars>>

\* POST /extract-text answers 2xx with `body`; then `textResponse.data.text`
\* and the POST /analyze
ExtractTextResponds(body) ==
    /\ call.pc = "extracting"
    /\ IF body = <<>>
       THEN CallRejects(query, call,
                        trace \o <<Event("extractSuccess", call.file, ""),
                                   Event("threw", call.file, TypeError.message)>>,
                        analyzeResumeCatch(TypeError))
       ELSE /\ call' = [call EXCEPT !.pc = "analyzing", !.text = <<body[1].text>>]
            /\ trace' = trace \o <<Event("extractSuccess", call.file, ""),
                                   Event("analyzeRequest", call.file, "")>>
            /\ query' = query
    /\ UNCHANGED <<mounted, file, retry, selectedEver, engineVars>>

\* POST /extract-text rejects (network error, non-2xx status)
ExtractTextFails ==
    /\ call.pc = "extracting"
    /\ CallRejects(query, call,
                   Append(trace, Event("extractFailed", call.file, NetworkError.message)),
                   analyzeResumeCatch(NetworkError))
    /\ UNCHANGED <<mounted, file, retry, selectedEver, engineVars>>

\* POST /analyze answers 2xx with `body`; then the four derivations and the
\* return
AnalyzeResponds(body) ==
    /\ call.pc = "analyzing"
    /\ IF body = <<>>
       THEN CallRejects(query, call,
                        trace \o <<Event("analyzeSuccess", call.file, ""),
                                   Event("threw", call.file, TypeError.message)>>,
                        analyzeResumeCatch(TypeError))
       ELSE /\ query' = QuerySuccess(query, AnalysisResult(body[1]))
            /\ call' = [call EXCEPT !.pc = "none", !.settled = "resolved",
                                    !.value = <<AnalysisResult(body[1])>>]
            /\ trace' = trace \o <<Event("analyzeSuccess", call.file, ""),
                                   Event("result", call.file, "")>>
    /\ UNCHANGED <<mounted, file, retry, selectedEver, engineVars>>

\* POST /analyze rejects (network error, 401, other non-2xx status)
AnalyzeFails ==
    /\ call.pc = "analyzing"
    /\ CallRejects(query, call,
                   Append(trace, Event("analyzeFailed", call.file, NetworkError.message)),
                   analyzeResumeCatch(NetworkError))
    /\ UNCHANGED <<mounted, file, retry, selectedEver, engineVars>>

\* the retry delay is over: the fetch runs its query function again
RetryTimer ==
    /\ call.pc = "retryWait"
    /\ RunQueryFn(query, call.file)
    /\ UNCHANGED <<mounted, file, retry, selectedEver, engineVars>>

\* the window regains focus: the stale query is fetched again in the background
OnWindowFocus ==
    /\ mounted
    /\ QueryEnabled(file)
    /\ query.fetchStatus = "idle"
    /\ RunQueryFn(QueryFetch(query), file)
    /\ UNCHANGED <<mounted, file, retry, selectedEver, engineVars>>

AppNext ==
    \/ Mount
    \/ \E f \in Files \cup {NoFile} : handleFileChange(f)
    \/ \E body \in ExtractBodies(call.file) : ExtractTextResponds(body)
    \/ ExtractTextFails
    \/ \E body \in AnalyzeBodies : AnalyzeResponds(body)
    \/ AnalyzeFails
    \/ RetryTimer
    \/ OnWindowFocus

SpecApp == AppInit /\ [][AppNext]_vars

\* ---- what the component renders -------------------------------------------
\* faulty variant: loading taken as "no data yet", whether or not a fetch is running
isLoading_StatusOnly == query.status = "pending"

isLoading == query.status = "pending" /\ query.fetchStatus = "fetching"

RECURSIVE Texts(_)
Texts(sugg) == IF sugg = <<>> THEN <<>> ELSE <<Head(sugg).text>> \o Texts(Tail(sugg))

\* the conditional blocks of the JSX; <<>> is a block that is not rendered
View ==
    [selectedFile |-> IF file # NoFile THEN <<file>> ELSE <<>>,
     loading |-> isLoading,
     alert |-> IF query.error # <<>> THEN <<query.error[1].message>> ELSE <<>>,
     score |-> IF query.data # <<>> THEN <<query.data[1].score>> ELSE <<>>,
     chips |-> IF query.data # <<>> THEN <<query.data[1].keywords>> ELSE <<>>,
     items |-> IF query.data # <<>> THEN <<Texts(query.data[1].suggestions)>> ELSE <<>>]

(***************************************************************************)
(* Engine state machine.  analyzeResume builds its result with the object  *)
(* literal {score: ..., keywords: ..., suggestions: ..., format: ...}; each *)
(* property initialiser is one step.  JavaScript runs them top to bottom;  *)
(* the steps are left unordered here, which includes that order.           *)
(***************************************************************************)

\* ---- bounds of the inputs drawn by Init
MaxIssues == 22       \* longest formatIssues of the score family
MaxKeywords == 2      \* longest skills / industryTerms / actionVerbs
MaxLen == 2           \* longest formatIssues / strengths of the suggestion family

IssueNames == <<"a", "b">>
KeywordNames == {"X", "x", "Y"}
TextNames == {"a", "b"}

IssueSeq(n) == [i \in 1..n |-> IssueNames[((i - 1) % Len(IssueNames)) + 1]]
SeqsUpTo(S, n) == UNION {[1..k -> S] : k \in 0..n}
Opt(S) == {Undefined} \cup {Arr(s) : s \in S}

ScoreFamily ==
    {Input(c, w, e, s, fi, Undefined, Undefined, Undefined, Undefined) :
        c \in BOOLEAN, w \in BOOLEAN, e \in BOOLEAN, s \in BOOLEAN,
        fi \in Opt({IssueSeq(n) : n \in 0..MaxIssues})}

KeywordFamily ==
    {Input(TRUE, TRUE, TRUE, TRUE, Undefined, sk, it, av, Undefined) :
        sk \in Opt(SeqsUpTo(KeywordNames, MaxKeywords)),
        it \in Opt(SeqsUpTo(KeywordNames, MaxKeywords)),
        av \in Opt(SeqsUpTo(KeywordNames, MaxKeywords))}

SuggestionFamily ==
    {Input(c, w, e, s, fi, Undefined, Undefined, Undefined, st) :
        c \in BOOLEAN, w \in BOOLEAN, e \in BOOLEAN, s \in BOOLEAN,
        fi \in Opt(SeqsUpTo(TextNames, MaxLen)),
        st \in Opt(SeqsUpTo(TextNames, MaxLen))}

EngineInputs == ScoreFamily \cup KeywordFamily \cup SuggestionFamily \cup {ExampleInput}

EngineInit ==
    /\ analysisData \in EngineInputs
    /\ score = NoScore
    /\ keywords = <<>>
    /\ suggestions = <<>>
    /\ format = NoFormat
    /\ evaluated = {}
    /\ AppIdle

EvalScore ==
    /\ "score" \notin evaluated
    /\ score' = calculateATSScore(analysisData)
    /\ evaluated' = evaluated \cup {"score"}
    /\ UNCHANGED <<analysisData, keywords, suggestions, format>>
    /\ UNCHANGED appVars

EvalKeywords ==
    /\ "keywords" \notin evaluated
    /\ keywords' = extractKeywords(analysisData)
    /\ evaluated' = evaluated \cup {"keywords"}
    /\ UNCHANGED <<analysisData, score, suggestions, format>>
    /\ UNCHANGED appVars

\* faulty variant: generateSuggestions collects the strengths by pushing them onto the
\* caller's formatIssues array before walking it
EvalSuggestions_InPlace ==
    /\ "suggestions" \notin evaluated
    /\ suggestions' = generateSuggestions(analysisData)
    /\ analysisData' = [analysisData EXCEPT !.formatIssues =
                            Arr(OrEmpty(@) \o OrEmpty(analysisData.strengths))]
    /\ evaluated' = evaluated \cup {"suggestions"}
    /\ UNCHANGED <<score, keywords, format>>
    /\ UNCHANGED appVars

EvalSuggestions ==
    /\ "suggestions" \notin evaluated
    /\ suggestions' = generateSuggestions(analysisData)
    /\ evaluated' = evaluated \cup {"suggestions"}
    /\ UNCHANGED <<analysisData, score, keywords, format>>
    /\ UNCHANGED appVars

EvalFormat ==
    /\ "format" \notin evaluated
    /\ format' = validateFormat(analysisData)
    /\ evaluated' = evaluated \cup {"format"}
    /\ UNCHANGED <<analysisData, score, keywords, suggestions>>
    /\ UNCHANGED appVars

EngineNext == EvalScore \/ EvalKeywords \/ EvalSuggestions \/ EvalFormat

SpecEngine == EngineInit /\ [][EngineNext]_vars

AllEvaluated == evaluated = Fields

(***************************************************************************)
(* Properties of the derivations (SpecEngine)                              *)
(***************************************************************************)
Flag(b) == IF b THEN 1 ELSE 0
Clamp(x, lo, hi) == IF x < lo THEN lo ELSE IF x > hi THEN hi ELSE x
IssueCount(d) == IF d.formatIssues.defined THEN Len(d.formatIssues.items) ELSE 0
AllFlags(d, b) ==
    /\ d.hasContactInfo = b /\ d.hasWorkExperience = b
    /\ d.hasEducation = b /\ d.hasSkills = b

ClaimedScore(d) ==
    Clamp(100 - 10 * Flag(~d.hasContactInfo) - 15 * Flag(~d.hasWorkExperience)
              - 10 * Flag(~d.hasEducation) - 10 * Flag(~d.hasSkills)
              - 5 * IssueCount(d), 0, 100)

\* C1: the score is clamp(100 - 10[no contact] - 15[no work] - 10[no education]
\* - 10[no skills] - 5 * number of format issues, 0, 100), an absent formatIssues
\* counting as none; so 100 with all flags true and no issue, 90 when only
\* hasContactInfo is false, 45 with all flags false and two issues.
C1_ScoreFormula ==
    "score" \in evaluated =>
        /\ score = ClaimedScore(analysisData)
        /\ AllFlags(analysisData, TRUE) /\ IssueCount(analysisData) = 0 => score = 100
        /\ ( /\ ~analysisData.hasContactInfo /\ analysisData.hasWorkExperience
             /\ analysisData.hasEducation /\ analysisData.hasSkills
             /\ IssueCount(analysisData) = 0 ) => score = 90
        /\ AllFlags(analysisData, FALSE) /\ IssueCount(analysisData) = 2 => score = 45

C1_Witness ==
    /\ "score" \in evaluated
    /\ AllFlags(analysisData, FALSE)
    /\ analysisData.formatIssues = Arr(<<"a", "b">>)
    /\ score = 45

\* C2: whatever the flags and however many format issues (more than 20
\* included), the score is an integer of the closed interval [0, 100].
C2_ScoreInRange ==
    "score" \in evaluated => score \in 0..100

C2_Witness ==
    /\ "score" \in evaluated
    /\ IssueCount(analysisData) > 20
    /\ AllFlags(analysisData, FALSE)
    /\ score = 0

RECURSIVE KeepFirst(_, _)
\* the entries of s from index i on that occur at no smaller index
KeepFirst(s, i) ==
    IF i > Len(s) THEN <<>>
    ELSE (IF \A j \in 1..(i - 1) : s[j] # s[i] THEN <<s[i]>> ELSE <<>>)
         \o KeepFirst(s, i + 1)

KeywordSource(d) ==
    OrEmpty(d.skills) \o OrEmpty(d.industryTerms) \o OrEmpty(d.actionVerbs)

\* C3: the keywords are skills ++ industryTerms ++ actionVerbs (absent taken
\* as empty) with only the first occurrence of each string kept, strings
\* compared exactly (case-sensitive): no duplicates, exactly the strings that
\* occur in any of the three, in order of first occurrence; skills [X],
\* industryTerms [X], actionVerbs [Y] gives X then Y.
C3_KeywordsFirstOccurrence ==
    "keywords" \in evaluated =>
        /\ keywords = KeepFirst(KeywordSource(analysisData), 1)
        /\ \A i, j \in 1..Len(keywords) : i # j => keywords[i] # keywords[j]
        /\ Range(keywords) = Range(KeywordSource(analysisData))
        /\ ( /\ analysisData.skills = Arr(<<"X">>)
             /\ analysisData.industryTerms = Arr(<<"X">>)
             /\ analysisData.actionVerbs = Arr(<<"Y">>) ) => keywords = <<"X", "Y">>

C3_Witness ==
    /\ "keywords" \in evaluated
    /\ analysisData.skills = Arr(<<"X", "x">>)
    /\ analysisData.industryTerms = Arr(<<"x", "Y">>)
    /\ analysisData.actionVerbs = Arr(<<"Y", "X">>)
    /\ keywords = <<"X", "x", "Y">>

IsMissing(r) == ~r.present
\* the texts of the missing-attribute suggestions, in the claimed order
MissingTexts(d) ==
    LET checks == << [present |-> d.hasContactInfo, text |-> TextContact],
                     [present |-> d.hasWorkExperience, text |-> TextWork],
                     [present |-> d.hasEducation, text |-> TextEducation],
                     [present |-> d.hasSkills, text |-> TextSkills] >>
        missing == SelectSeq(checks, IsMissing)
    IN  [i \in 1..Len(missing) |-> missing[i].text]

FalseFlags(d) ==
    Flag(~d.hasContactInfo) + Flag(~d.hasWorkExperience)
        + Flag(~d.hasEducation) + Flag(~d.hasSkills)

\* C4: the suggestions number (false flags) + length(formatIssues) +
\* length(strengths), in fixed order: the error suggestions of the false
\* flags (contact, work experience, education, skills, each on its own),
\* then one warning per format issue in input order with the issue as text,
\* then one success per strength in input order; nothing is merged,
\* de-duplicated or reordered.
C4_SuggestionsOrder ==
    "suggestions" \in evaluated =>
        LET d == analysisData
            errs == MissingTexts(d)
            fi == OrEmpty(d.formatIssues)
            st == OrEmpty(d.strengths)
        IN  /\ Len(suggestions) = FalseFlags(d) + Len(fi) + Len(st)
            /\ Len(errs) = FalseFlags(d)
            /\ \A i \in 1..Len(errs) :
                   suggestions[i] = [text |-> errs[i], severity |-> "error"]
            /\ \A i \in 1..Len(fi) :
                   suggestions[Len(errs) + i] = [text |-> fi[i], severity |-> "warning"]
            /\ \A i \in 1..Len(st) :
                   suggestions[Len(errs) + Len(fi) + i] =
                       [text |-> st[i], severity |-> "success"]

C4_Witness ==
    /\ "suggestions" \in evaluated
    /\ ~analysisData.hasContactInfo /\ analysisData.hasWorkExperience
    /\ ~analysisData.hasEducation /\ ~analysisData.hasSkills
    /\ analysisData.formatIssues = Arr(<<"b", "b">>)
    /\ analysisData.strengths = Arr(<<"b", "a">>)
    /\ Len(suggestions) = 7

\* the same input with formatIssues absent where it was [] and [] where it
\* was absent
AbsentEmptyTwin(d) ==
    [d EXCEPT !.formatIssues = IF @.defined THEN Undefined ELSE Arr(<<>>)]

\* C5: format.isValid is true exactly when formatIssues is empty or absent,
\* format.issues is formatIssues verbatim (empty when absent), and an input
\* with formatIssues absent gives the same score, keywords, suggestions and
\* format as the same input with formatIssues = [].
C5_ValidateFormat ==
    /\ "format" \in evaluated =>
           /\ format.isValid = (IssueCount(analysisData) = 0)
           /\ format.issues = (IF analysisData.formatIssues.defined
                               THEN analysisData.formatIssues.items ELSE <<>>)
    /\ (AllEvaluated /\ IssueCount(analysisData) = 0) =>
           LET twin == AbsentEmptyTwin(analysisData)
           IN  /\ score = calculateATSScore(twin)
               /\ keywords = extractKeywords(twin)
               /\ suggestions = generateSuggestions(twin)
               /\ format = validateFormat(twin)

C5_Witness ==
    /\ AllEvaluated
    /\ analysisData.formatIssues = Arr(<<>>)
    /\ ~analysisData.hasSkills
    /\ analysisData.strengths = Arr(<<"a">>)
    /\ format = [isValid |-> TRUE, issues |-> <<>>]

ExampleSuggestions ==
    << [text |-> TextWork, severity |-> "error"],
       [text |-> "Font too small", severity |-> "warning"],
       [text |-> "Strong leadership", severity |-> "success"] >>

\* C6 as stated: the result is {score: computeScore(input), keywords:
\* extractKeywords(input), suggestions: generateSuggestions(input), format:
\* validateFormat(input)} of the same input, and the end-to-end example
\* (flags true / false / true / true, one format issue, one skill, one
\* strength) gives score 75, [Python], error / warning / success, and an
\* invalid format holding the one issue.
C6_Original ==
    AllEvaluated =>
        /\ score = calculateATSScore(analysisData)
        /\ keywords = extractKeywords(analysisData)
        /\ suggestions = generateSuggestions(analysisData)
        /\ format = validateFormat(analysisData)
        /\ analysisData = ExampleInput =>
               /\ score = 75
               /\ keywords = <<"Python">>
               /\ suggestions = ExampleSuggestions
               /\ format = [isValid |-> FALSE, issues |-> <<"Font too small">>]

\* C6 amended: as C6, in whatever order the four are evaluated and with none
\* of them changing the input, but the end-to-end example gives score 80
\* (100 - 15 for the missing work experience - 5 for the one format issue).
C6_AnalyzeComposes ==
    /\ [](AllEvaluated =>
            /\ score = calculateATSScore(analysisData)
            /\ keywords = extractKeywords(analysisData)
            /\ suggestions = generateSuggestions(analysisData)
            /\ format = validateFormat(analysisData)
            /\ analysisData = ExampleInput =>
                   /\ score = 80
                   /\ keywords = <<"Python">>
                   /\ suggestions = ExampleSuggestions
                   /\ format = [isValid |-> FALSE, issues |-> <<"Font too small">>])
    /\ [][analysisData' = analysisData]_engineVars

C6_Witness ==
    /\ AllEvaluated
    /\ analysisData = ExampleInput
    /\ score = 80
    /\ suggestions = ExampleSuggestions

RECURSIVE OfSeverity(_, _)
\* the texts of the suggestions of severity sev, in order
OfSeverity(sugg, sev) ==
    IF sugg = <<>> THEN <<>>
    ELSE (IF Head(sugg).severity = sev THEN <<Head(sugg).text>> ELSE <<>>)
         \o OfSeverity(Tail(sugg), sev)

Deduction(text) ==
    IF text = TextWork THEN 15
    ELSE IF text \in {TextContact, TextEducation, TextSkills} THEN 10
    ELSE 0

RECURSIVE SumDeductions(_)
SumDeductions(texts) ==
    IF texts = <<>> THEN 0 ELSE Deduction(Head(texts)) + SumDeductions(Tail(texts))

\* C10: the outputs of one analysis agree: the score is 100 exactly when no
\* suggestion is an error or a warning; format.isValid is false exactly when
\* some suggestion is a warning; the warning texts, in order, are
\* format.issues; and the score is clamp(100 - 5 * length(format.issues) -
\* the deductions (10 / 15 / 10 / 10) of the error suggestions present, 0, 100).
C10_OutputsConsistent ==
    AllEvaluated =>
        LET errors == OfSeverity(suggestions, "error")
            warnings == OfSeverity(suggestions, "warning")
        IN  /\ (score = 100) <=> (errors = <<>> /\ warnings = <<>>)
            /\ (~format.isValid) <=> (warnings # <<>>)
            /\ warnings = format.issues
            /\ score = Clamp(100 - 5 * Len(format.issues) - SumDeductions(errors), 0, 100)

C10_Witness ==
    /\ AllEvaluated
    /\ OfSeverity(suggestions, "error") = <<TextWork, TextSkills>>
    /\ OfSeverity(suggestions, "warning") = <<"a", "b">>
    /\ score = 65
    /\ ~format.isValid

(***************************************************************************)
(* Properties of the component and of analyzeResume (SpecApp)              *)
(***************************************************************************)
FailureEvents == {"extractFailed", "analyzeFailed", "threw"}
RequestEvents == {"extractRequest", "analyzeRequest"}
EventsOf(kinds) == {i \in 1..Len(trace) : trace[i].ev \in kinds}

\* C7: every failure of a collaborator during analyzeResume (a failed
\* extract-text request, a failed analysis request, a malformed response
\* that makes the code throw) reaches the caller as the one error 'Failed to
\* analyze resume', with no result; 'No file selected' is a different error,
\* raised only without a file and never for a failed request, and a failed
\* request is never reported as 'No file selected'.
C7_SingleFailureSignal ==
    /\ \A i \in EventsOf(FailureEvents) :
           /\ i + 1 = Len(trace)
           /\ trace[i + 1] = Event("rejected", call.file, "Failed to analyze resume")
           /\ EventsOf({"result"}) = {}
           /\ call.settled = "rejected"
           /\ call.value = <<[name |-> "Error", message |-> "Failed to analyze resume"]>>
    /\ \A i \in EventsOf({"rejected"}) :
           /\ trace[i].msg \in {"Failed to analyze resume", "No file selected"}
           /\ trace[i].msg = "Failed to analyze resume" =>
                  /\ trace[i].file # NoFile
                  /\ i > 1 /\ trace[i - 1].ev \in FailureEvents
           /\ trace[i].msg = "No file selected" =>
                  /\ trace[i].file = NoFile
                  /\ EventsOf(RequestEvents \cup FailureEvents) = {}
    /\ query.error # <<>> =>
           /\ query.error[1].message \in {"Failed to analyze resume", "No file selected"}
           /\ query.error[1].message = "No file selected" <=> selectedEver = {}
    /\ FileNotSelectedError.name # FailedError.name
    /\ FileNotSelectedError.message # FailedError.message

C7_Witness ==
    /\ EventsOf({"threw"}) # {}
    /\ EventsOf({"analyzeSuccess"}) # {}
    /\ trace[Len(trace)] = Event("rejected", call.file, "Failed to analyze resume")
    /\ query.status = "error"
    /\ query.error = <<FailedError>>

AnalysisPending == call.pc \in {"extracting", "analyzing"}
AnalysisResolved == call.pc = "none" /\ call.settled = "resolved"
AnalysisRejected == call.settled = "rejected"
NothingShown ==
    /\ ~View.loading /\ View.alert = <<>>
    /\ View.score = <<>> /\ View.chips = <<>> /\ View.items = <<>>
ShowsResult(r) ==
    /\ View.score = <<r.score>>
    /\ View.chips = <<r.keywords>>
    /\ View.items = <<Texts(r.suggestions)>>

Follows(i, e) ==
    /\ i > 1
    /\ trace[i - 1].ev = e
    /\ trace[i - 1].file = trace[i].file

\* C9: in every run the order is file selected < extract-text request <
\* extract-text success < analyze request < analyze success < result: no
\* request is sent while no file is selected (the query is disabled then, so
\* 'No file selected' is never thrown), the analyze request follows the
\* success of the extract-text request of the same file, and the derivations
\* run only on a received analysis response.
C9_EventOrder ==
    /\ \A i \in 1..Len(trace) :
           /\ trace[i].file # NoFile
           /\ trace[i].file \in selectedEver
           /\ trace[i].msg # "No file selected"
           /\ trace[i].ev = "extractRequest" => i = 1
           /\ trace[i].ev = "extractSuccess" => Follows(i, "extractRequest")
           /\ trace[i].ev = "analyzeRequest" => Follows(i, "extractSuccess")
           /\ trace[i].ev = "analyzeSuccess" => Follows(i, "analyzeRequest")
           /\ trace[i].ev = "result" => Follows(i, "analyzeSuccess")
    /\ file = NoFile => (trace = <<>> /\ call = NoCall /\ query = FreshQuery)
    /\ call.pc = "extracting" => trace[Len(trace)].ev = "extractRequest"
    /\ call.pc = "analyzing" =>
           /\ trace[Len(trace)].ev = "analyzeRequest"
           /\ call.text = <<TextOf(call.file)>>
    /\ query.error # <<FileNotSelectedError>>
    /\ AnalysisResolved => trace[Len(trace)].ev = "result"

C9_Witness ==
    /\ Len(trace) = 5
    /\ trace[1] = Event("extractRequest", "cv.pdf", "")
    /\ trace[5] = Event("result", "cv.pdf", "")
    /\ file = "resume.docx"
    /\ query.status = "success"

=============================================================================
